---- MODULE Spec2Model ----
(***************************************************************************)
(* The event-polling bridge of giganotes-core-js (native/src/lib.rs):      *)
(* the JsEventEmitter class (init, poll, shutdown), the EventEmitterTask   *)
(* (perform on a libuv worker, complete on the host thread), the shared    *)
(* mpsc receive end behind its Mutex, and the external producer that owns  *)
(* the send end.                                                           *)
(***************************************************************************)
EXTENDS Integers, Sequences, FiniteSets, TLC

\* ---------------------------------------------------------------- bounds
MaxCalls == 4
MaxPolls == 2
MaxEvents == 2
MaxPayloadLen == 2
MaxResultLen == 2
TickMs == 50

\* ------------------------------------------------------ program constants
RecvTimeoutMs == 100
WORKER == 0

LockErrMsg == "Could not obtain lock on receiver"
RecvErrMsg == "Failed to receive event"
SendErrMsg == "sending on a closed channel"

\* The payloads the producer sends: the empty one and one of full length.
Payloads == {<<>>, [i \in 1..MaxPayloadLen |-> i]}

\* The numbers the host passes as command code, in and out of the i8 range.
JsNumbers == {-129, -1, 0, 127, 128}

\* The byte sequences the engine may return for a command.
EngineResults == UNION {[1..n -> {0, 255}] : n \in 0..MaxResultLen}

VARIABLES handles, tasks, chan, sent, delivered, overlapped, dispatch, trackHandles

vars == <<handles, tasks, chan, sent, delivered, overlapped, dispatch, trackHandles>>

Min(a, b) == IF a < b THEN a ELSE b

\* The calls the host has made so far: new RustChannel(), poll, shutdown.
HostCalls ==
    Len(handles) + Len(tasks)
        + Cardinality({x \in (1..MaxCalls) \X (1..MaxCalls) :
                x[1] <= Len(handles) /\ x[2] <= Len(handles[x[1]].log)})

\* ------------------------------------------------------------ data shapes
\* An event in the channel: the payload Vec<u8>, with its production number.
NoEvent == [id |-> 0, payload |-> <<>>]

\* Result<Option<Vec<u8>>, String> of perform.
Pending == [kind |-> "Pending", event |-> NoEvent, msg |-> ""]
OkSome(ev) == [kind |-> "OkSome", event |-> ev, msg |-> ""]
OkNone == [kind |-> "OkNone", event |-> NoEvent, msg |-> ""]
ErrStr(m) == [kind |-> "Err", event |-> NoEvent, msg |-> m]

\* JS values handed to the callback.
JsUndefinedValue == [type |-> "undefined", event |-> "", data |-> <<>>]
JsEventObject(bytes) == [type |-> "object", event |-> "coreEvent", data |-> bytes]

\* function (err, data) arguments; NotCalled before the callback has run.
NotCalled == [err |-> "", value |-> JsUndefinedValue, called |-> FALSE]
CallbackOk(v) == [err |-> "null", value |-> v, called |-> TRUE]
CallbackErr(m) == [err |-> m, value |-> JsUndefinedValue, called |-> TRUE]

\* -------------------------------------------------------- pure functions
\* `len as u32`: len modulo 2^32, computed on 16-bit halves.
AsU32(n) == (n % 65536) + 65536 * ((n \div 65536) % 65536)

\* JsArrayBuffer::new(cx, len as u32): a zero-filled buffer.
JsArrayBufferNew(len) == [i \in 1..AsU32(len) |-> 0]

\* Faulty variant of CopyLoop: the loop stops one element early.
CopyLoopShort(data, v) == [i \in 1..Len(data) |-> IF i < Len(v) THEN v[i] ELSE data[i]]

\* for (i, x) in v.iter().enumerate() { data[i] = *x; }
CopyLoop(data, v) == [i \in 1..Len(data) |-> IF i <= Len(v) THEN v[i] ELSE data[i]]

\* `value() as i8` on the command code: a saturating cast.
AsI8(x) == IF x > 127 THEN 127 ELSE IF x < -128 THEN -128 ELSE x

\* Faulty variant of MarshalOutput: the buffer is one byte too long.
MarshalOutputPadded(v) == CopyLoop(JsArrayBufferNew(Len(v) + 1), v)

\* The output buffer of handle_core_command and handle_async_core_command:
\* JsArrayBuffer::new(v.len() as u32), then the copy of v into it.
MarshalOutput(v) == CopyLoop(JsArrayBufferNew(Len(v)), v)

\* EventEmitterTask::complete: the JS result for an outcome of perform.
complete(event) ==
    IF event.kind = "Err" THEN CallbackErr(event.msg)
    ELSE IF event.kind = "OkNone" THEN CallbackOk(JsUndefinedValue)
    ELSE LET result == event.event.payload
             output == CopyLoop(JsArrayBufferNew(Len(result)), result)
         IN  CallbackOk(JsEventObject(output))

\* Faulty variant of recv_timeout: takes the newest event, not the oldest.
recv_timeoutNewest(c) ==
    IF c.queue # <<>> THEN [kind |-> "Ok", event |-> c.queue[Len(c.queue)]]
    ELSE IF ~c.connected THEN [kind |-> "Disconnected", event |-> NoEvent]
    ELSE IF c.waited >= RecvTimeoutMs THEN [kind |-> "Timeout", event |-> NoEvent]
    ELSE [kind |-> "Blocked", event |-> NoEvent]

\* Faulty variant of recv_timeout: a closed channel is taken for an empty one.
recv_timeoutNoDisconnect(c) ==
    IF c.queue # <<>> THEN [kind |-> "Ok", event |-> Head(c.queue)]
    ELSE IF c.waited >= RecvTimeoutMs THEN [kind |-> "Timeout", event |-> NoEvent]
    ELSE [kind |-> "Blocked", event |-> NoEvent]

\* Faulty variant of recv_timeout: the disconnection is looked at first.
recv_timeoutDisconnectFirst(c) ==
    IF ~c.connected THEN [kind |-> "Disconnected", event |-> NoEvent]
    ELSE IF c.queue # <<>> THEN [kind |-> "Ok", event |-> Head(c.queue)]
    ELSE IF c.waited >= RecvTimeoutMs THEN [kind |-> "Timeout", event |-> NoEvent]
    ELSE [kind |-> "Blocked", event |-> NoEvent]

\* Faulty variant of recv_timeout: the wait gives up at half the bound.
recv_timeoutEarly(c) ==
    IF c.queue # <<>> THEN [kind |-> "Ok", event |-> Head(c.queue)]
    ELSE IF ~c.connected THEN [kind |-> "Disconnected", event |-> NoEvent]
    ELSE IF c.waited >= RecvTimeoutMs \div 2 THEN [kind |-> "Timeout", event |-> NoEvent]
    ELSE [kind |-> "Blocked", event |-> NoEvent]

\* Receiver::recv_timeout on a channel c, as seen by the guard holder.
recv_timeout(c) ==
    IF c.queue # <<>> THEN [kind |-> "Ok", event |-> Head(c.queue)]
    ELSE IF ~c.connected THEN [kind |-> "Disconnected", event |-> NoEvent]
    ELSE IF c.waited >= RecvTimeoutMs THEN [kind |-> "Timeout", event |-> NoEvent]
    ELSE [kind |-> "Blocked", event |-> NoEvent]

\* Faulty variant of performMatch: a timeout is reported as an error.
performMatchTimeoutErr(r) ==
    IF r.kind = "Ok" THEN OkSome(r.event)
    ELSE ErrStr(RecvErrMsg)

\* The match of perform on the result of recv_timeout.
performMatch(r) ==
    IF r.kind = "Ok" THEN OkSome(r.event)
    ELSE IF r.kind = "Timeout" THEN OkNone
    ELSE ErrStr(RecvErrMsg)

\* Sender::send on the shutdown channel s.
SenderSend(s) == IF s.rxAlive THEN "Ok" ELSE SendErrMsg

\* ------------------------------------------------------------------ Init
InitChan == [queue |-> <<>>, connected |-> TRUE, guard |-> 0,
             poisoned |-> FALSE, waited |-> 0]

NoDispatch == [fn |-> "none", code |-> 0, data |-> <<>>, len |-> 0,
               v |-> <<>>, output |-> <<>>]

InitBridge ==
    /\ handles = <<>>
    /\ tasks = <<>>
    /\ chan = [c \in {WORKER} |-> InitChan]
    /\ sent = <<>>
    /\ delivered = <<>>
    /\ overlapped = FALSE
    /\ dispatch = NoDispatch

Init == InitBridge /\ trackHandles = FALSE

\* The same start, with every task recording the handle that issued it.
HandlesInit == InitBridge /\ trackHandles = TRUE

\* --------------------------------------------------------- host thread
\* Faulty variant of Construct: the handle sets up a channel of its own.
ConstructOwnChannel ==
    /\ HostCalls < MaxCalls
    /\ handles' = Append(handles,
            [events |-> Len(handles) + 1,
             shutdown |-> [rxAlive |-> FALSE, queued |-> 0],
             log |-> <<>>])
    /\ chan' = [c \in DOMAIN chan \cup {Len(handles) + 1} |->
                    IF c \in DOMAIN chan THEN chan[c]
                    ELSE [InitChan EXCEPT !.connected = FALSE]]
    /\ UNCHANGED <<dispatch, trackHandles, tasks, sent, delivered, overlapped>>

\* JsEventEmitter::init: a fresh shutdown channel whose receive end is
\* dropped when init returns, and a clone of WORKER.receiver.
Construct ==
    /\ HostCalls < MaxCalls
    /\ handles' = Append(handles,
            [events |-> WORKER,
             shutdown |-> [rxAlive |-> FALSE, queued |-> 0],
             log |-> <<>>])
    /\ UNCHANGED <<dispatch, trackHandles, tasks, chan, sent, delivered, overlapped>>

Outstanding == {t \in 1..Len(tasks) : tasks[t].state # "Done"}

NewTask(h) ==
    [handle |-> IF trackHandles THEN h ELSE 0,
     events |-> handles[h].events,
     state |-> "Scheduled",
     outcome |-> Pending,
     cb |-> NotCalled,
     calls |-> 0,
     guardAtPoll |-> chan[handles[h].events].guard,
     closedAtPoll |-> ~chan[handles[h].events].connected,
     headAtPoll |-> IF chan[handles[h].events].queue = <<>> THEN NoEvent
                    ELSE Head(chan[handles[h].events].queue),
     sawDisconnect |-> \E u \in 1..Len(tasks) : tasks[u].cb.err = RecvErrMsg]

\* Faulty variant of Poll: the host thread waits for the guard itself.
PollWaitsForGuard(h) ==
    /\ h \in 1..Len(handles)
    /\ HostCalls < MaxCalls
    /\ Len(tasks) < MaxPolls
    /\ chan[handles[h].events].guard = 0
    /\ tasks' = Append(tasks, NewTask(h))
    /\ overlapped' = (overlapped \/ Outstanding # {})
    /\ UNCHANGED <<dispatch, trackHandles, handles, chan, sent, delivered>>

\* JsEventEmitter::poll with a function as its argument.
Poll(h) ==
    /\ h \in 1..Len(handles)
    /\ HostCalls < MaxCalls
    /\ Len(tasks) < MaxPolls
    /\ tasks' = Append(tasks, NewTask(h))
    /\ overlapped' = (overlapped \/ Outstanding # {})
    /\ UNCHANGED <<dispatch, trackHandles, handles, chan, sent, delivered>>

\* Faulty variant of Shutdown: a failed send sets up the signal anew.
ShutdownRecreates(h) ==
    /\ h \in 1..Len(handles)
    /\ HostCalls < MaxCalls
    /\ LET r == SenderSend(handles[h].shutdown)
       IN  handles' = [handles EXCEPT
                ![h].shutdown.queued = IF r = "Ok" THEN @ + 1 ELSE @,
                ![h].shutdown.rxAlive = (r # "Ok"),
                ![h].log = Append(@, r)]
    /\ UNCHANGED <<dispatch, trackHandles, tasks, chan, sent, delivered, overlapped>>

\* Faulty variant of Shutdown: the call also empties the event channel.
ShutdownDrainsEvents(h) ==
    /\ h \in 1..Len(handles)
    /\ HostCalls < MaxCalls
    /\ LET r == SenderSend(handles[h].shutdown)
       IN  handles' = [handles EXCEPT
                ![h].shutdown.queued = IF r = "Ok" THEN @ + 1 ELSE @,
                ![h].log = Append(@, r)]
    /\ chan' = [chan EXCEPT ![handles[h].events].queue = <<>>]
    /\ UNCHANGED <<dispatch, trackHandles, tasks, sent, delivered, overlapped>>

\* JsEventEmitter::shutdown.
Shutdown(h) ==
    /\ h \in 1..Len(handles)
    /\ HostCalls < MaxCalls
    /\ LET r == SenderSend(handles[h].shutdown)
       IN  handles' = [handles EXCEPT
                ![h].shutdown.queued = IF r = "Ok" THEN @ + 1 ELSE @,
                ![h].log = Append(@, r)]
    /\ UNCHANGED <<dispatch, trackHandles, tasks, chan, sent, delivered, overlapped>>

\* Faulty variant of Complete: a timeout ends the task without the callback.
CompleteSilentTimeout(t) ==
    /\ t \in 1..Len(tasks)
    /\ tasks[t].state = "Completed"
    /\ tasks' = [tasks EXCEPT
            ![t].state = "Done",
            ![t].cb = IF tasks[t].outcome.kind = "OkNone" THEN @
                      ELSE complete(tasks[t].outcome),
            ![t].calls = IF tasks[t].outcome.kind = "OkNone" THEN @ ELSE @ + 1]
    /\ delivered' = IF complete(tasks[t].outcome).value.type = "object"
                    THEN Append(delivered,
                            [id |-> tasks[t].outcome.event.id,
                             data |-> complete(tasks[t].outcome).value.data])
                    ELSE delivered
    /\ UNCHANGED <<dispatch, trackHandles, handles, chan, sent, overlapped>>

\* EventEmitterTask::complete and the callback call that follows it.
Complete(t) ==
    /\ t \in 1..Len(tasks)
    /\ tasks[t].state = "Completed"
    /\ tasks' = [tasks EXCEPT ![t].state = "Done",
                              ![t].cb = complete(tasks[t].outcome),
                              ![t].calls = @ + 1]
    /\ delivered' = IF complete(tasks[t].outcome).value.type = "object"
                    THEN Append(delivered,
                            [id |-> tasks[t].outcome.event.id,
                             data |-> complete(tasks[t].outcome).value.data])
                    ELSE delivered
    /\ UNCHANGED <<dispatch, trackHandles, handles, chan, sent, overlapped>>

\* ------------------------------------------------------- worker threads
\* Faulty variant of Lock: the receive starts without waiting for the guard.
LockNoWait(t) ==
    /\ t \in 1..Len(tasks)
    /\ tasks[t].state = "Scheduled"
    /\ LET c == tasks[t].events IN
        /\ tasks' = [tasks EXCEPT ![t].state = "Running"]
        /\ chan' = [chan EXCEPT ![c].guard = t, ![c].waited = 0]
    /\ UNCHANGED <<dispatch, trackHandles, handles, sent, delivered, overlapped>>

\* Faulty variant of Lock: try_lock, a held guard is reported as an error.
LockTry(t) ==
    /\ t \in 1..Len(tasks)
    /\ tasks[t].state = "Scheduled"
    /\ LET c == tasks[t].events IN
        IF chan[c].guard # 0 \/ chan[c].poisoned
        THEN /\ tasks' = [tasks EXCEPT ![t].state = "Completed",
                                       ![t].outcome = ErrStr(LockErrMsg)]
             /\ chan' = chan
        ELSE /\ tasks' = [tasks EXCEPT ![t].state = "Running"]
             /\ chan' = [chan EXCEPT ![c].guard = t, ![c].waited = 0]
    /\ UNCHANGED <<dispatch, trackHandles, handles, sent, delivered, overlapped>>

\* perform, first half: self.0.lock().
Lock(t) ==
    /\ t \in 1..Len(tasks)
    /\ tasks[t].state = "Scheduled"
    /\ LET c == tasks[t].events IN
        /\ chan[c].guard = 0
        /\ IF chan[c].poisoned
           THEN /\ tasks' = [tasks EXCEPT ![t].state = "Completed",
                                          ![t].outcome = ErrStr(LockErrMsg)]
                /\ chan' = chan
           ELSE /\ tasks' = [tasks EXCEPT ![t].state = "Running"]
                /\ chan' = [chan EXCEPT ![c].guard = t, ![c].waited = 0]
    /\ UNCHANGED <<dispatch, trackHandles, handles, sent, delivered, overlapped>>

\* Faulty variant of Recv: after a timeout the guard is never dropped.
RecvLeaksGuard(t) ==
    /\ t \in 1..Len(tasks)
    /\ tasks[t].state = "Running"
    /\ LET c == tasks[t].events
           r == recv_timeout(chan[c])
       IN
        /\ r.kind # "Blocked"
        /\ tasks' = [tasks EXCEPT ![t].state = "Completed",
                                  ![t].outcome = performMatch(r)]
        /\ chan' = [chan EXCEPT
                ![c].queue = IF r.kind = "Ok" THEN Tail(@) ELSE @,
                ![c].guard = IF r.kind = "Timeout" THEN @ ELSE 0,
                ![c].waited = 0]
    /\ UNCHANGED <<dispatch, trackHandles, handles, sent, delivered, overlapped>>

\* Faulty variant of Recv: a successful receive leaves the event queued.
RecvPeeks(t) ==
    /\ t \in 1..Len(tasks)
    /\ tasks[t].state = "Running"
    /\ LET c == tasks[t].events
           r == recv_timeout(chan[c])
       IN
        /\ r.kind # "Blocked"
        /\ tasks' = [tasks EXCEPT ![t].state = "Completed",
                                  ![t].outcome = performMatch(r)]
        /\ chan' = [chan EXCEPT ![c].guard = 0, ![c].waited = 0]
    /\ UNCHANGED <<dispatch, trackHandles, handles, sent, delivered, overlapped>>

\* Faulty variant of Recv: a successful receive empties the whole queue.
RecvDrains(t) ==
    /\ t \in 1..Len(tasks)
    /\ tasks[t].state = "Running"
    /\ LET c == tasks[t].events
           r == recv_timeout(chan[c])
       IN
        /\ r.kind # "Blocked"
        /\ tasks' = [tasks EXCEPT ![t].state = "Completed",
                                  ![t].outcome = performMatch(r)]
        /\ chan' = [chan EXCEPT
                ![c].queue = <<>>,
                ![c].guard = 0,
                ![c].waited = 0]
    /\ UNCHANGED <<dispatch, trackHandles, handles, sent, delivered, overlapped>>

\* Faulty variant of Recv: a disconnection sets the channel up anew.
RecvReconnects(t) ==
    /\ t \in 1..Len(tasks)
    /\ tasks[t].state = "Running"
    /\ LET c == tasks[t].events
           r == recv_timeout(chan[c])
       IN
        /\ r.kind # "Blocked"
        /\ tasks' = [tasks EXCEPT ![t].state = "Completed",
                                  ![t].outcome = performMatch(r)]
        /\ chan' = [chan EXCEPT
                ![c].queue = IF r.kind = "Ok" THEN Tail(@) ELSE @,
                ![c].connected = IF r.kind = "Disconnected" THEN TRUE ELSE @,
                ![c].guard = 0,
                ![c].waited = 0]
    /\ UNCHANGED <<dispatch, trackHandles, handles, sent, delivered, overlapped>>

\* perform, second half: recv_timeout returns, the guard is dropped.
Recv(t) ==
    /\ t \in 1..Len(tasks)
    /\ tasks[t].state = "Running"
    /\ LET c == tasks[t].events
           r == recv_timeout(chan[c])
       IN
        /\ r.kind # "Blocked"
        /\ tasks' = [tasks EXCEPT ![t].state = "Completed",
                                  ![t].outcome = performMatch(r)]
        /\ chan' = [chan EXCEPT
                ![c].queue = IF r.kind = "Ok" THEN Tail(@) ELSE @,
                ![c].guard = 0,
                ![c].waited = 0]
    /\ UNCHANGED <<dispatch, trackHandles, handles, sent, delivered, overlapped>>

\* Time passes for the guard holder blocked in recv_timeout.
Tick(c) ==
    /\ chan[c].guard # 0
    /\ recv_timeout(chan[c]).kind = "Blocked"
    /\ chan' = [chan EXCEPT ![c].waited = Min(@ + TickMs, RecvTimeoutMs)]
    /\ UNCHANGED <<dispatch, trackHandles, handles, tasks, sent, delivered, overlapped>>

\* ------------------------------------------------------------- producer
\* The engine sends one event on the send end of the event channel.
Send(p) ==
    /\ chan[WORKER].connected
    /\ Len(sent) < MaxEvents
    /\ chan' = [chan EXCEPT ![WORKER].queue =
                    Append(@, [id |-> Len(sent) + 1, payload |-> p])]
    /\ sent' = Append(sent, p)
    /\ UNCHANGED <<dispatch, trackHandles, handles, tasks, delivered, overlapped>>

\* The engine drops every send end of the event channel.
CloseProducer ==
    /\ chan[WORKER].connected
    /\ chan' = [chan EXCEPT ![WORKER].connected = FALSE]
    /\ UNCHANGED <<dispatch, trackHandles, handles, tasks, sent, delivered, overlapped>>

\* ----------------------------------------------------- command dispatch
\* handle_core_command: the engine's handle_command on (code, data, len).
HandleCoreCommand(n, b) ==
    /\ \E v \in EngineResults :
          dispatch' = [fn |-> "handle_command", code |-> AsI8(n), data |-> b,
                       len |-> Len(b), v |-> v, output |-> MarshalOutput(v)]
    /\ UNCHANGED <<handles, tasks, chan, sent, delivered, overlapped, trackHandles>>

\* handle_async_core_command: the engine's handle_async_command.
HandleAsyncCoreCommand(n, b) ==
    /\ \E v \in EngineResults :
          dispatch' = [fn |-> "handle_async_command", code |-> AsI8(n), data |-> b,
                       len |-> Len(b), v |-> v, output |-> MarshalOutput(v)]
    /\ UNCHANGED <<handles, tasks, chan, sent, delivered, overlapped, trackHandles>>

DispatchNext ==
    \/ \E n \in JsNumbers, b \in Payloads : HandleCoreCommand(n, b)
    \/ \E n \in JsNumbers, b \in Payloads : HandleAsyncCoreCommand(n, b)

DispatchSpec == Init /\ [][DispatchNext]_vars

Next ==
    \/ Construct
    \/ \E h \in 1..MaxCalls : Poll(h)
    \/ \E h \in 1..MaxCalls : Shutdown(h)
    \/ \E t \in 1..MaxPolls : Complete(t)
    \/ \E t \in 1..MaxPolls : Lock(t)
    \/ \E t \in 1..MaxPolls : Recv(t)
    \/ \E c \in {WORKER} : Tick(c)
    \/ \E p \in Payloads : Send(p)
    \/ CloseProducer

Spec == Init /\ [][Next]_vars

HandlesSpec == HandlesInit /\ [][Next]_vars

\* The libuv pool runs every queued task, a bounded wait ends, and the event
\* loop of the host runs every completion.
Fairness ==
    /\ \A t \in 1..MaxPolls :
          /\ WF_vars(Lock(t))
          /\ WF_vars(Recv(t))
          /\ WF_vars(Complete(t))
    /\ WF_vars(Tick(WORKER))

FairSpec == Spec /\ Fairness

\* ------------------------------------------------------------ properties
TaskIds == 1..Len(tasks)
HandleIds == 1..Len(handles)

IsEventResult(cb) == cb.called /\ cb.err = "null" /\ cb.value.type = "object"
IsNoDataResult(cb) == cb.called /\ cb.err = "null" /\ cb.value.type = "undefined"
IsFailureResult(cb) == cb.called /\ cb.err # "null"

\* C1: with sequential (non-overlapping) polls, the events handed to the
\* callbacks are, in callback order, exactly the first events produced on
\* the channel: the i-th delivery is the i-th event sent, with its payload;
\* none is delivered twice and none is skipped.
FifoExactlyOnce ==
    ~overlapped =>
        /\ Len(delivered) <= Len(sent)
        /\ \A i \in 1..Len(delivered) : delivered[i] = [id |-> i, data |-> sent[i]]

FifoExactlyOnceWitness ==
    /\ ~overlapped
    /\ Len(delivered) = 2
    /\ Len(sent) = 2
    /\ sent[1] # sent[2]

\* C2: a poll whose bounded wait elapses gets the success value "no data",
\* the timeout step leaves the channel connected, its queue untouched and
\* the guard free, and a later sequential poll issued with an event at the
\* head of the queue completes with that event.
TimeoutResultIsNoData ==
    \A t \in TaskIds :
        /\ (tasks[t].state = "Done" /\ tasks[t].outcome.kind = "OkNone")
                => tasks[t].cb = CallbackOk(JsUndefinedValue)
        /\ (/\ ~overlapped
            /\ tasks[t].state = "Done"
            /\ \E u \in 1..(t - 1) : tasks[u].outcome = OkNone
            /\ tasks[t].headAtPoll # NoEvent)
                => /\ tasks[t].outcome = OkSome(tasks[t].headAtPoll)
                   /\ tasks[t].cb = CallbackOk(JsEventObject(tasks[t].headAtPoll.payload))

TimeoutStep(t) ==
    /\ tasks[t].state = "Running"
    /\ tasks'[t].state # "Running"
    /\ chan[tasks[t].events].queue = <<>>
    /\ chan[tasks[t].events].connected

TimeoutLeavesChannelUsable ==
    \A t \in TaskIds :
        TimeoutStep(t) =>
            /\ chan[tasks[t].events].waited >= RecvTimeoutMs
            /\ tasks'[t].state = "Completed"
            /\ tasks'[t].outcome = OkNone
            /\ chan'[tasks[t].events] = [chan[tasks[t].events] EXCEPT !.guard = 0, !.waited = 0]
            /\ chan'[tasks[t].events].connected
            /\ ~chan'[tasks[t].events].poisoned
            /\ handles' = handles

TimeoutNonTerminal ==
    /\ []TimeoutResultIsNoData
    /\ [][TimeoutLeavesChannelUsable]_vars

TimeoutNonTerminalWitness ==
    \E t, u \in TaskIds :
        /\ ~overlapped
        /\ t < u
        /\ IsNoDataResult(tasks[t].cb)
        /\ tasks[u].headAtPoll # NoEvent
        /\ IsEventResult(tasks[u].cb)

\* C3 as stated: every poll issued after the producer side was closed ends
\* with the ChannelDisconnected error.
DisconnectedAfterCloseOriginal ==
    \A t \in TaskIds :
        (tasks[t].closedAtPoll /\ tasks[t].state = "Done")
            => tasks[t].cb = CallbackErr(RecvErrMsg)

\* C3, amended: a poll issued after the producer side was closed ends with
\* an event that was still buffered or, the buffer being empty, with the
\* ChannelDisconnected error; it never ends with "no data", and its receive
\* never blocks.
DisconnectedAfterClose ==
    \A t \in TaskIds :
        tasks[t].closedAtPoll =>
            /\ tasks[t].state = "Running"
                    => recv_timeout(chan[tasks[t].events]).kind \in {"Ok", "Disconnected"}
            /\ tasks[t].state \in {"Completed", "Done"}
                    => \/ /\ tasks[t].outcome.kind = "OkSome"
                          /\ tasks[t].headAtPoll # NoEvent
                          /\ tasks[t].outcome.event.id >= tasks[t].headAtPoll.id
                       \/ tasks[t].outcome = ErrStr(RecvErrMsg)
            /\ tasks[t].state = "Done"
                    => \/ /\ IsEventResult(tasks[t].cb)
                          /\ tasks[t].headAtPoll # NoEvent
                       \/ tasks[t].cb = CallbackErr(RecvErrMsg)
            /\ (tasks[t].state = "Done" /\ tasks[t].headAtPoll = NoEvent)
                    => tasks[t].cb = CallbackErr(RecvErrMsg)

DisconnectedAfterCloseWitness ==
    \E t, u \in TaskIds :
        /\ tasks[t].closedAtPoll
        /\ IsEventResult(tasks[t].cb)
        /\ tasks[u].closedAtPoll
        /\ tasks[u].cb = CallbackErr(RecvErrMsg)

\* C4: the callback of a poll is invoked exactly once: never before the
\* task completes, once when it does, never again, and the one call carries
\* exactly one of an event, "no data" or a failure.
CallbackCalls ==
    \A t \in TaskIds :
        /\ tasks[t].calls \in {0, 1}
        /\ (tasks[t].state = "Done") <=> (tasks[t].calls = 1)
        /\ tasks[t].calls = 0 => tasks[t].cb = NotCalled
        /\ tasks[t].calls = 1 =>
              /\ tasks[t].cb.called
              /\ Cardinality({k \in {"event", "nodata", "failure"} :
                    \/ k = "event" /\ IsEventResult(tasks[t].cb)
                    \/ k = "nodata" /\ IsNoDataResult(tasks[t].cb)
                    \/ k = "failure" /\ IsFailureResult(tasks[t].cb)}) = 1

CallbackNeverRepeated ==
    \A t \in TaskIds :
        /\ tasks'[t].calls >= tasks[t].calls
        /\ tasks[t].state = "Done" => tasks'[t] = tasks[t]
        /\ tasks[t].state # "Completed" => tasks'[t].calls = tasks[t].calls

CallbackExactlyOnce ==
    /\ []CallbackCalls
    /\ [][CallbackNeverRepeated]_vars

CallbackExactlyOnceWitness ==
    /\ Len(tasks) = MaxPolls
    /\ \A t \in TaskIds : tasks[t].state = "Done" /\ tasks[t].calls = 1
    /\ overlapped
    /\ ~chan[WORKER].connected
    /\ \E h \in HandleIds : handles[h].log # <<>>

\* C5: the callback result is the outcome of perform, without loss: an event
\* gives the success object {event: "coreEvent", data} whose data has the
\* length and the bytes of the payload received, a timeout gives the success
\* value undefined, and an error outcome gives a failure with its message.
OutcomeMapping ==
    \A t \in TaskIds :
        tasks[t].state = "Done" =>
            /\ tasks[t].outcome.kind = "OkSome" =>
                  /\ tasks[t].cb.err = "null"
                  /\ tasks[t].cb.value.type = "object"
                  /\ tasks[t].cb.value.event = "coreEvent"
                  /\ Len(tasks[t].cb.value.data) = Len(tasks[t].outcome.event.payload)
                  /\ \A i \in 1..Len(tasks[t].outcome.event.payload) :
                        tasks[t].cb.value.data[i] = tasks[t].outcome.event.payload[i]
                  /\ tasks[t].outcome.event.payload = sent[tasks[t].outcome.event.id]
            /\ tasks[t].outcome.kind = "OkNone" => IsNoDataResult(tasks[t].cb)
            /\ tasks[t].outcome.kind = "Err" =>
                  /\ IsFailureResult(tasks[t].cb)
                  /\ tasks[t].cb.err = tasks[t].outcome.msg
            /\ tasks[t].outcome.kind \in {"OkSome", "OkNone", "Err"}

OutcomeMappingWitness ==
    \E t, u \in TaskIds :
        /\ tasks[t].state = "Done"
        /\ tasks[t].outcome.kind = "OkSome"
        /\ Len(tasks[t].outcome.event.payload) > 0
        /\ tasks[u].state = "Done"
        /\ tasks[u].outcome.kind \in {"OkNone", "Err"}

\* C6: the first shutdown() call on a newly constructed handle returns
\* without error.
FirstShutdownSucceeds ==
    \A h \in HandleIds :
        Len(handles[h].log) >= 1 => handles[h].log[1] = "Ok"

\* C7: on one handle, a shutdown() call that follows a failed shutdown()
\* call fails too, with the same cause, and delivers nothing.
ShutdownFailureSticky ==
    \A h \in HandleIds :
        \A i, j \in 1..Len(handles[h].log) :
            (i < j /\ handles[h].log[i] # "Ok")
                => /\ handles[h].log[j] = handles[h].log[i]
                   /\ handles[h].shutdown.queued = 0

ShutdownFailureStickyWitness ==
    \E h \in HandleIds :
        /\ Len(handles[h].log) = 2
        /\ handles[h].log[1] # "Ok"

\* C8: poll never blocks the host thread: whenever a handle exists (and the
\* bound on polls is not reached) the poll step is enabled, whatever the
\* guard, the queue, the producer and the shutdown signal are; the step only
\* appends one Scheduled task, and leaves the channel and its guard alone.
PollAlwaysEnabled ==
    \A h \in HandleIds :
        (HostCalls < MaxCalls /\ Len(tasks) < MaxPolls) => ENABLED Poll(h)

PollOnlySchedules ==
    Len(tasks') # Len(tasks) =>
        /\ Len(tasks') = Len(tasks) + 1
        /\ SubSeq(tasks', 1, Len(tasks)) = tasks
        /\ tasks'[Len(tasks')].state = "Scheduled"
        /\ tasks'[Len(tasks')].outcome = Pending
        /\ tasks'[Len(tasks')].calls = 0
        /\ chan' = chan
        /\ handles' = handles
        /\ delivered' = delivered

PollNonBlocking ==
    /\ []PollAlwaysEnabled
    /\ [][PollOnlySchedules]_vars

PollNonBlockingWitness ==
    \E t, u \in TaskIds :
        /\ tasks[u].guardAtPoll = t
        /\ tasks[u].closedAtPoll
        /\ tasks[u].state = "Scheduled"
        /\ tasks[t].state = "Running"
        /\ chan[tasks[u].events].queue = <<>>
        /\ \E h \in HandleIds : handles[h].log # <<>>

\* C9: a shutdown() call changes nothing on the polling side: the queue,
\* the connection, the guard, every task and every delivery stay as they
\* were, and the handle keeps its receive end.
ShutdownStep(h) == Len(handles'[h].log) > Len(handles[h].log)

ShutdownLeavesPolling ==
    \A h \in HandleIds :
        ShutdownStep(h) =>
            /\ chan' = chan
            /\ tasks' = tasks
            /\ delivered' = delivered
            /\ sent' = sent
            /\ Len(handles') = Len(handles)
            /\ \A g \in HandleIds : handles'[g].events = handles[g].events

ShutdownFrame == [][ShutdownLeavesPolling]_vars

ShutdownFrameWitness ==
    \E t, u \in TaskIds : \E h \in HandleIds :
        /\ handles[h].log # <<>>
        /\ tasks[t].state = "Running"
        /\ tasks[u].state = "Scheduled"
        /\ chan[WORKER].queue # <<>>

\* C10: at most one task is inside a receive attempt: the guard is held by
\* the one Running task and free when none is Running, a task becomes
\* Running only by taking a free guard, and a task that ends its receive
\* attempt, with whatever outcome, frees the guard.
GuardHeldByRunning ==
    \A c \in DOMAIN chan :
        LET running == {t \in TaskIds : tasks[t].events = c /\ tasks[t].state = "Running"}
        IN  /\ Cardinality(running) <= 1
            /\ (chan[c].guard = 0) <=> (running = {})
            /\ chan[c].guard # 0 => running = {chan[c].guard}

GuardTakenAndReleased ==
    \A t \in TaskIds :
        /\ (tasks[t].state # "Running" /\ tasks'[t].state = "Running")
                => /\ chan[tasks[t].events].guard = 0
                   /\ chan'[tasks[t].events].guard = t
        /\ (tasks[t].state = "Running" /\ tasks'[t].state # "Running")
                => /\ chan'[tasks[t].events].guard = 0
                   /\ tasks'[t].outcome.kind \in {"OkSome", "OkNone", "Err"}
        /\ (tasks[t].state = "Running" /\ tasks'[t].state = "Running")
                => chan'[tasks[t].events].guard = t

MutualExclusion ==
    /\ []GuardHeldByRunning
    /\ [][GuardTakenAndReleased]_vars

MutualExclusionWitness ==
    \E t, u \in TaskIds :
        /\ tasks[u].guardAtPoll = t
        /\ tasks[u].state = "Running"
        /\ tasks[t].state \in {"Completed", "Done"}

\* C11: overlapping polls never produce the guard-acquisition error: no task
\* ends with "Could not obtain lock on receiver" and no callback receives
\* it; a Scheduled task whose guard is held is left as it is, it only waits.
NoLockError ==
    \A t \in TaskIds :
        /\ tasks[t].outcome # ErrStr(LockErrMsg)
        /\ tasks[t].cb.err # LockErrMsg
        /\ ~chan[tasks[t].events].poisoned

WaitsWhileGuardHeld ==
    \A t \in TaskIds :
        (tasks[t].state = "Scheduled" /\ chan[tasks[t].events].guard # 0)
            => tasks'[t] = tasks[t]

OverlapNeverErrors ==
    /\ []NoLockError
    /\ [][WaitsWhileGuardHeld]_vars

OverlapNeverErrorsWitness ==
    \E t, u \in TaskIds :
        /\ overlapped
        /\ tasks[u].guardAtPoll = t
        /\ tasks[t].state = "Done"
        /\ tasks[u].state = "Done"
        /\ ~IsFailureResult(tasks[u].cb)

\* C13: a task that is in its receive attempt with an event buffered keeps
\* seeing that event at the head until it ends, and ends with Event carrying
\* it, never with Timeout or Disconnected, closed producer or not.
BufferedEventStep ==
    \A t \in TaskIds :
        (tasks[t].state = "Running" /\ chan[tasks[t].events].queue # <<>>)
            => \/ /\ tasks'[t].state = "Running"
                  /\ chan'[tasks[t].events].queue # <<>>
                  /\ Head(chan'[tasks[t].events].queue) = Head(chan[tasks[t].events].queue)
               \/ /\ tasks'[t].state = "Completed"
                  /\ tasks'[t].outcome = OkSome(Head(chan[tasks[t].events].queue))

BufferedEventIsReceived == [][BufferedEventStep]_vars

BufferedEventIsReceivedWitness ==
    \E t \in TaskIds :
        /\ tasks[t].closedAtPoll
        /\ tasks[t].headAtPoll # NoEvent
        /\ tasks[t].state = "Done"
        /\ tasks[t].outcome.kind = "OkSome"
        /\ ~chan[tasks[t].events].connected

\* C15: with polls outstanding at the same time, no event is lost or given
\* twice: the events taken so far are exactly the first ones produced, each
\* held by one task, the queue holds the rest in production order, and every
\* take is the next event in production order.
TakenBy(i) == {t \in TaskIds : tasks[t].outcome.kind = "OkSome" /\ tasks[t].outcome.event.id = i}

NoLossNoDuplicate ==
    LET q == chan[WORKER].queue
        taken == Len(sent) - Len(q)
    IN  /\ taken >= 0
        /\ \A i \in 1..Len(sent) :
              IF i <= taken
              THEN /\ Cardinality(TakenBy(i)) = 1
                   /\ \A t \in TakenBy(i) : tasks[t].outcome.event.payload = sent[i]
              ELSE /\ TakenBy(i) = {}
                   /\ q[i - taken] = [id |-> i, payload |-> sent[i]]
        /\ Cardinality({i \in 1..Len(delivered) : TRUE}) =
              Cardinality({delivered[i].id : i \in 1..Len(delivered)})

TakesInProductionOrder ==
    \A t \in TaskIds :
        (tasks[t].outcome.kind # "OkSome" /\ tasks'[t].outcome.kind = "OkSome")
            => tasks'[t].outcome.event.id = Len(sent) - Len(chan[WORKER].queue) + 1

OverlapKeepsEvents ==
    /\ []NoLossNoDuplicate
    /\ [][TakesInProductionOrder]_vars

OverlapKeepsEventsWitness ==
    \E t, u \in TaskIds :
        /\ overlapped
        /\ t < u
        /\ tasks[t].state = "Done"
        /\ tasks[u].state = "Done"
        /\ tasks[t].outcome.kind = "OkSome"
        /\ tasks[u].outcome.kind = "OkSome"
        /\ tasks[u].outcome.event.id < tasks[t].outcome.event.id

\* C16: a receive attempt ends with Timeout only after the full bound has
\* been waited on an empty, connected channel; the wait only advances while
\* the channel is empty and connected and never passes the bound; once an
\* event is buffered or the producer is closed the attempt can end at once,
\* with Event or Disconnected, and at the bound it can end with Timeout.
WaitWithinBound ==
    \A t \in TaskIds :
        tasks[t].state = "Running" =>
            LET c == chan[tasks[t].events] IN
            /\ c.waited \in 0..RecvTimeoutMs
            /\ (c.queue # <<>> \/ ~c.connected \/ c.waited = RecvTimeoutMs)
                    => (ENABLED Recv(t) /\ ~ENABLED Tick(tasks[t].events))
            /\ (c.queue = <<>> /\ c.connected /\ c.waited < RecvTimeoutMs)
                    => (~ENABLED Recv(t) /\ ENABLED Tick(tasks[t].events))

TimeoutOnlyAtBound ==
    \A t \in TaskIds :
        tasks[t].state = "Running" =>
            LET c == chan[tasks[t].events]
                d == chan'[tasks[t].events]
            IN
            /\ tasks'[t].outcome = OkNone
                    => (c.waited >= RecvTimeoutMs /\ c.queue = <<>> /\ c.connected)
            /\ (tasks'[t].state # "Running" /\ c.queue # <<>>)
                    => tasks'[t].outcome.kind = "OkSome"
            /\ (tasks'[t].state # "Running" /\ c.queue = <<>> /\ ~c.connected)
                    => tasks'[t].outcome = ErrStr(RecvErrMsg)
            /\ (tasks'[t].state = "Running" /\ d.waited # c.waited)
                    => /\ d.waited > c.waited
                       /\ c.queue = <<>>
                       /\ c.connected
            /\ (tasks'[t].state = "Running" /\ ~c.connected) => ~d.connected

BoundedWait ==
    /\ []WaitWithinBound
    /\ [][TimeoutOnlyAtBound]_vars

BoundedWaitWitness ==
    \E t, u \in TaskIds :
        /\ tasks[t].state = "Done"
        /\ tasks[t].outcome = OkNone
        /\ tasks[u].state = "Running"
        /\ chan[tasks[u].events].waited > 0
        /\ chan[tasks[u].events].waited < RecvTimeoutMs
        /\ chan[tasks[u].events].queue # <<>>

\* C17: once a callback has received the ChannelDisconnected error, every
\* poll issued afterwards ends with that error too: its receive never
\* blocks, and it ends neither with an event nor with "no data".
DisconnectedIsAbsorbing ==
    /\ (\E u \in TaskIds : tasks[u].outcome = ErrStr(RecvErrMsg))
            => (chan[WORKER].queue = <<>> /\ ~chan[WORKER].connected)
    /\ \A t \in TaskIds :
        tasks[t].sawDisconnect =>
            /\ tasks[t].state = "Running"
                    => recv_timeout(chan[tasks[t].events]).kind = "Disconnected"
            /\ tasks[t].state \in {"Completed", "Done"}
                    => tasks[t].outcome = ErrStr(RecvErrMsg)
            /\ tasks[t].state = "Done" => tasks[t].cb = CallbackErr(RecvErrMsg)

DisconnectedIsAbsorbingWitness ==
    \E t \in TaskIds :
        /\ tasks[t].sawDisconnect
        /\ tasks[t].state = "Done"
        /\ tasks[t].cb = CallbackErr(RecvErrMsg)

\* C19: a task makes one receive attempt and no more: it never returns to
\* an earlier stage; ending with Event removes the head of the queue and
\* nothing else, ending with any other outcome leaves the queue as it was.
StageOf(st) ==
    IF st = "Scheduled" THEN 1 ELSE IF st = "Running" THEN 2
    ELSE IF st = "Completed" THEN 3 ELSE 4

OneAttemptStep ==
    \A t \in TaskIds :
        LET q == chan[tasks[t].events].queue
            q2 == chan'[tasks[t].events].queue
        IN
        /\ StageOf(tasks'[t].state) >= StageOf(tasks[t].state)
        /\ tasks[t].outcome # Pending => tasks'[t].outcome = tasks[t].outcome
        /\ (tasks[t].outcome = Pending /\ tasks'[t].outcome.kind = "OkSome")
                => /\ q # <<>>
                   /\ tasks'[t].outcome.event = Head(q)
                   /\ q2 = Tail(q)
        /\ (tasks[t].outcome = Pending /\ tasks'[t].outcome.kind \in {"OkNone", "Err"})
                => q2 = q
        /\ (tasks[t].state = "Running" /\ tasks'[t].state = "Running")
                => q2 \in {q} \cup {Append(q, [id |-> Len(sent) + 1, payload |-> p]) : p \in Payloads}

OneReceiveAttempt == [][OneAttemptStep]_vars

OneReceiveAttemptWitness ==
    \E t, u \in TaskIds :
        /\ tasks[t].outcome.kind = "OkSome"
        /\ tasks[t].outcome.event.id = 1
        /\ chan[WORKER].queue # <<>>
        /\ Head(chan[WORKER].queue).id = 2
        /\ tasks[u].outcome = OkNone

\* C12: invoke and invokeAsync return a buffer with the length and the
\* bytes of the sequence the engine returned, never truncated or padded,
\* for every command code and every input, the empty one included; the
\* engine is given the input with its own length.
DispatchRoundTrip ==
    dispatch.fn # "none" =>
        /\ Len(dispatch.output) = Len(dispatch.v)
        /\ \A i \in 1..Len(dispatch.v) : dispatch.output[i] = dispatch.v[i]
        /\ dispatch.len = Len(dispatch.data)
        /\ dispatch.code \in -128..127

DispatchRoundTripWitness ==
    /\ dispatch.fn = "handle_async_command"
    /\ dispatch.data = <<>>
    /\ Len(dispatch.v) = MaxResultLen
    /\ dispatch.v[1] # dispatch.v[MaxResultLen]
    /\ dispatch.output = dispatch.v

\* C18: every handle holds the one shared receive end, whose guard is the
\* only one: over all handles together an event is handed to at most one
\* callback, and two tasks issued through different handles are never both
\* inside a receive attempt.
SharedReceiveEnd ==
    /\ DOMAIN chan = {WORKER}
    /\ \A h \in HandleIds : handles[h].events = WORKER
    /\ \A t \in TaskIds :
          /\ tasks[t].handle \in HandleIds
          /\ tasks[t].events = handles[tasks[t].handle].events
    /\ \A t, u \in TaskIds :
          (t # u /\ tasks[t].handle # tasks[u].handle) =>
              /\ ~(tasks[t].state = "Running" /\ tasks[u].state = "Running")
              /\ (tasks[t].outcome.kind = "OkSome" /\ tasks[u].outcome.kind = "OkSome")
                    => tasks[t].outcome.event.id # tasks[u].outcome.event.id
    /\ \A i, j \in 1..Len(delivered) : i # j => delivered[i].id # delivered[j].id

SharedReceiveEndWitness ==
    \E t, u \in TaskIds :
        /\ tasks[t].handle = 1
        /\ tasks[u].handle = 2
        /\ tasks[u].guardAtPoll = t
        /\ IsEventResult(tasks[t].cb)
        /\ IsEventResult(tasks[u].cb)
        /\ Len(delivered) = 2

\* C14: under fair scheduling every poll has its callback invoked in the
\* end, overlapping polls included: a Running task ends its receive attempt
\* and frees the guard, and a task that waits for the guard gets it.
EveryPollCompletes ==
    \A t \in 1..MaxPolls :
        /\ (Len(tasks) >= t)
                ~> (Len(tasks) >= t /\ tasks[t].state = "Done" /\ tasks[t].calls = 1)
        /\ (Len(tasks) >= t /\ tasks[t].state = "Running")
                ~> (Len(tasks) >= t /\ tasks[t].state # "Running"
                        /\ chan[tasks[t].events].guard # t)
        /\ (Len(tasks) >= t /\ tasks[t].state = "Scheduled"
                /\ chan[tasks[t].events].guard # 0)
                ~> (Len(tasks) >= t /\ tasks[t].state = "Running")

EveryPollCompletesWitness ==
    \E t, u \in TaskIds :
        /\ overlapped
        /\ tasks[u].guardAtPoll = t
        /\ tasks[t].state = "Done"
        /\ tasks[t].outcome = OkNone
        /\ tasks[u].state = "Done"
        /\ tasks[u].calls = 1

====
